---- MODULE Spec2Model ----
(***************************************************************************)
(* A model of the transport and telemetry core of the pinpoint Go agent:   *)
(* the runtime-statistics aggregator and the active-span registry          *)
(* (src/unnamed/part_001), and the gRPC channel streams, the back-off and  *)
(* the retry loops (src/unnamed/part_000).                                 *)
(*                                                                         *)
(* Time is counted in ticks, TicksPerSecond ticks to the second, so that   *)
(* durations below one second exist.  Durations of the back-off are in     *)
(* milliseconds.                                                           *)
(***************************************************************************)
EXTENDS Integers, Sequences, FiniteSets, TLC

(***************************************************************************)
(* Bounds of the model.                                                    *)
(***************************************************************************)
TicksPerSecond == 2
\* the clock of the aggregator's specification runs to StatsSeconds seconds
StatsSeconds == 2
\* the clock of the registry's specification runs to MaxSeconds seconds
MaxSeconds == 5
\* response times recorded between two snapshots
MaxRecords == 2
\* sampling decisions recorded between two snapshots
MaxDecisions == 2
\* span ids the registry is driven with
NumSpans == 2
\* rand.Float64() is drawn from { r / RandSteps : r \in 0 .. RandSteps-1 }
RandSteps == 4

(***************************************************************************)
(* Constants of the program.                                               *)
(***************************************************************************)
\* base := float64(1 * time.Second), in milliseconds
BaseDelay == 1000
\* max := float64(60 * time.Second), in milliseconds
MaxDelay == 60000
\* for n := 1; n < 100; n++
RetryLimit == 100

ResTimes == {0, 100, 300}
SpanIds == 7 .. (6 + NumSpans)
StreamKinds == {"ping", "span", "stat", "cmd", "atc"}
LoopKinds == {"dial", "ping", "span", "stat", "cmd"}
\* span.asyncId is an int32
AsyncIds == {-2147483647 - 1, -1, 0, 1, 2, 2147483647}

VARIABLES
    clock,            \* time.Now(), in ticks
    lastCollectTime,  \* var lastCollectTime time.Time
    accResponseTime,
    maxResponseTime,
    requestCount,
    sampleNew,
    unsampleNew,
    sampleCont,
    unsampleCont,
    skipNew,
    skipCont,
    activeSpan,       \* var activeSpan sync.Map: span id -> start time
    recorded,         \* history: the response times recorded since the last snapshot
    decided,          \* history: the number of sampling decisions since the last snapshot
    snapped,          \* history: a snapshot has been returned
    spanOp,           \* history: per span id, its last registry operation and start
    stream,           \* per stream kind, the stream handle: "nil" or "live"
    ctxDone,          \* per stream kind, whether the stream's call context is cancelled
    cmdReq,           \* cmdStream.cmdReq: "nil" or the request received last
    reqId,            \* activeThreadCountStream.reqId
    actCount,         \* activeThreadCountStream.actCount
    pingSocketId,     \* agentGrpc.pingSocketId
    enable,           \* agent.Enable()
    loop,             \* the retry loop that is running, "none" if none is
    pc,               \* its position
    n,                \* its attempt number
    slept,            \* the last backOffSleep of the loop
    loopRet,          \* what the loop returned
    mux,              \* var statsMux sync.Mutex: "free" or the goroutine holding it
    gor,              \* per goroutine of the application, its position and locals
    worker,           \* the position and the locals of agent.sendStatsWorker
    tally,            \* history: what was recorded, reported and passed on
    channel,          \* the channel whose constructor is running, "none" if none is
    spanObj,          \* the span the tracer has handed to the span channel
    ret,              \* the last call and what it returned
    panicked          \* a run-time panic has ended the process

aggVars == <<lastCollectTime, accResponseTime, maxResponseTime, requestCount,
             sampleNew, unsampleNew, sampleCont, unsampleCont, skipNew, skipCont>>
histVars == <<recorded, decided, snapped>>
regVars == <<activeSpan, spanOp>>
streamVars == <<stream, ctxDone, cmdReq, reqId, actCount, pingSocketId>>
retryVars == <<enable, loop, pc, n, slept, loopRet>>
taskVars == <<mux, gor, worker, tally, channel, spanObj>>
vars == <<clock, aggVars, histVars, regVars, streamVars, retryVars, taskVars,
          ret, panicked>>

NoSpans == [k \in {} |-> 0]
\* the goroutines of the application that call into the aggregator
Goroutines == {"g1", "g2"}
\* the six sampling decisions, named after their counters
DecisionKinds == {"sampleNew", "unsampleNew", "sampleCont", "unsampleCont",
                  "skipNew", "skipCont"}
IdleGoroutine == [pc |-> "idle", kind |-> "none", reg |-> 0, resTime |-> 0, calls |-> 0]
NoWorker == [pc |-> "none", caller |-> "none", batch |-> 0, collected |-> << >>,
             produced |-> 0]
NoTally == [recSum |-> 0, recCount |-> 0, snapSum |-> 0, snapCount |-> 0,
            decided |-> [k \in DecisionKinds |-> 0],
            snapDecided |-> [k \in DecisionKinds |-> 0],
            early |-> FALSE, passed |-> << >>, errs |-> << >>]
\* a span with no operation name, no annotation and no span event
NoSpan == [spanId |-> 7, asyncId |-> 0, operationName |-> "", annotations |-> << >>,
           spanEvents |-> << >>]
NoSleep == [attempt |-> 0, dur |-> 0, jitter |-> 0, prevAttempt |-> 0, prevDur |-> 0]

(***************************************************************************)
(* The state after construction: the package variables at their zero       *)
(* values, initStats() and resetResponseTime() run by the stats worker, no *)
(* stream opened, the agent enabled.                                       *)
(***************************************************************************)
InitBase ==
    /\ clock = 0
    /\ lastCollectTime = 0
    /\ accResponseTime = 0
    /\ maxResponseTime = 0
    /\ requestCount = 0
    /\ sampleNew = 0
    /\ unsampleNew = 0
    /\ sampleCont = 0
    /\ unsampleCont = 0
    /\ skipNew = 0
    /\ skipCont = 0
    /\ activeSpan = NoSpans
    /\ recorded = << >>
    /\ decided = 0
    /\ snapped = FALSE
    /\ spanOp = [id \in SpanIds |-> [op |-> "none", start |-> 0]]
    /\ stream = [k \in StreamKinds |-> "nil"]
    /\ ctxDone = [k \in StreamKinds |-> FALSE]
    /\ cmdReq = "nil"
    /\ reqId = -1
    /\ actCount = 0
    /\ pingSocketId = 0
    /\ enable = TRUE
    /\ slept = NoSleep
    /\ loopRet = "none"
    /\ mux = "free"
    /\ gor = [g \in Goroutines |-> IdleGoroutine]
    /\ tally = NoTally
    /\ ret = [op |-> "init"]
    /\ panicked = FALSE

\* no retry loop is running
Init ==
    /\ InitBase
    /\ worker = NoWorker
    /\ channel = "none"
    /\ spanObj = NoSpan
    /\ loop = "none"
    /\ pc = "idle"
    /\ n = 0

\* one of the retry loops has been entered: for n := 1
InitRetry ==
    /\ InitBase
    /\ worker = NoWorker
    /\ channel = "none"
    /\ spanObj = NoSpan
    /\ loop \in LoopKinds
    /\ pc = "head"
    /\ n = 1

(***************************************************************************)
(* StatsAggregator (src/unnamed/part_001).                                 *)
(***************************************************************************)
\* int64(dur.Seconds()): the whole seconds of a duration given in ticks
Seconds(dur) == dur \div TicksPerSecond

calcResponseAvg ==
    IF requestCount > 0 THEN accResponseTime \div requestCount ELSE 0

collectResponseTime_LastAsMax(resTime) ==
    /\ accResponseTime' = accResponseTime + resTime
    /\ requestCount' = requestCount + 1
    /\ maxResponseTime' = resTime
    /\ recorded' = Append(recorded, resTime)
    /\ ret' = [op |-> "collectResponseTime"]
    /\ UNCHANGED <<lastCollectTime, sampleNew, unsampleNew, sampleCont,
                   unsampleCont, skipNew, skipCont, decided, snapped, panicked>>

collectResponseTime(resTime) ==
    /\ accResponseTime' = accResponseTime + resTime
    /\ requestCount' = requestCount + 1
    /\ maxResponseTime' = IF maxResponseTime < resTime THEN resTime
                                                      ELSE maxResponseTime
    /\ recorded' = Append(recorded, resTime)
    /\ ret' = [op |-> "collectResponseTime"]
    /\ UNCHANGED <<lastCollectTime, sampleNew, unsampleNew, sampleCont,
                   unsampleCont, skipNew, skipCont, decided, snapped, panicked>>

resetResponseTime_KeepsSkipCont ==
    /\ accResponseTime' = 0
    /\ requestCount' = 0
    /\ maxResponseTime' = 0
    /\ sampleNew' = 0
    /\ unsampleNew' = 0
    /\ sampleCont' = 0
    /\ unsampleCont' = 0
    /\ skipNew' = 0
    /\ skipCont' = skipCont

resetResponseTime ==
    /\ accResponseTime' = 0
    /\ requestCount' = 0
    /\ maxResponseTime' = 0
    /\ sampleNew' = 0
    /\ unsampleNew' = 0
    /\ sampleCont' = 0
    /\ unsampleCont' = 0
    /\ skipNew' = 0
    /\ skipCont' = 0

\* the frame of an incr function: everything of the aggregator but its counter
incrFrame(op) ==
    /\ decided' = decided + 1
    /\ ret' = [op |-> op]
    /\ UNCHANGED <<lastCollectTime, accResponseTime, maxResponseTime,
                   requestCount, recorded, snapped, panicked>>

incrSampleNew ==
    /\ sampleNew' = sampleNew + 1
    /\ UNCHANGED <<unsampleNew, sampleCont, unsampleCont, skipNew, skipCont>>
    /\ incrFrame("incrSampleNew")

incrUnsampleNew ==
    /\ unsampleNew' = unsampleNew + 1
    /\ UNCHANGED <<sampleNew, sampleCont, unsampleCont, skipNew, skipCont>>
    /\ incrFrame("incrUnsampleNew")

incrSampleCont ==
    /\ sampleCont' = sampleCont + 1
    /\ UNCHANGED <<sampleNew, unsampleNew, unsampleCont, skipNew, skipCont>>
    /\ incrFrame("incrSampleCont")

incrUnsampleCont ==
    /\ unsampleCont' = unsampleCont + 1
    /\ UNCHANGED <<sampleNew, unsampleNew, sampleCont, skipNew, skipCont>>
    /\ incrFrame("incrUnsampleCont")

incrSkipNew ==
    /\ skipNew' = skipNew + 1
    /\ UNCHANGED <<sampleNew, unsampleNew, sampleCont, unsampleCont, skipCont>>
    /\ incrFrame("incrSkipNew")

incrSkipCont ==
    /\ skipCont' = skipCont + 1
    /\ UNCHANGED <<sampleNew, unsampleNew, sampleCont, unsampleCont, skipNew>>
    /\ incrFrame("incrSkipCont")

(***************************************************************************)
(* ActiveSpanRegistry (src/unnamed/part_001).                              *)
(***************************************************************************)
addActiveSpan_KeepsOldStart(spanId, start) ==
    /\ activeSpan' = [k \in DOMAIN activeSpan \cup {spanId} |->
                         IF k \in DOMAIN activeSpan THEN activeSpan[k] ELSE start]
    /\ spanOp' = [spanOp EXCEPT ![spanId] = [op |-> "add", start |-> start]]
    /\ ret' = [op |-> "addActiveSpan"]

\* activeSpan.Store(spanId, start)
addActiveSpan(spanId, start) ==
    /\ activeSpan' = [k \in DOMAIN activeSpan \cup {spanId} |->
                         IF k = spanId THEN start ELSE activeSpan[k]]
    /\ spanOp' = [spanOp EXCEPT ![spanId] = [op |-> "add", start |-> start]]
    /\ ret' = [op |-> "addActiveSpan"]

\* activeSpan.Delete(spanId)
dropActiveSpan(spanId) ==
    /\ activeSpan' = [k \in DOMAIN activeSpan \ {spanId} |-> activeSpan[k]]
    /\ spanOp' = [spanOp EXCEPT ![spanId] = [op |-> "drop", start |-> 0]]
    /\ ret' = [op |-> "dropActiveSpan"]

\* the callback of activeSpan.Range in getActiveSpanCount, applied to every key
RECURSIVE rangeActiveSpan(_, _, _)
rangeActiveSpan(keys, now, activeSpanCount) ==
    IF keys = {} THEN activeSpanCount
    ELSE LET k == CHOOSE x \in keys : TRUE
             d == now - activeSpan[k]
             b == IF d < 1 * TicksPerSecond THEN 1
                  ELSE IF d < 3 * TicksPerSecond THEN 2
                  ELSE IF d < 5 * TicksPerSecond THEN 3
                  ELSE 4
         IN  rangeActiveSpan(keys \ {k}, now,
                             [activeSpanCount EXCEPT ![b] = @ + 1])

RECURSIVE rangeActiveSpan_Closed(_, _, _)
rangeActiveSpan_Closed(keys, now, activeSpanCount) ==
    IF keys = {} THEN activeSpanCount
    ELSE LET k == CHOOSE x \in keys : TRUE
             d == now - activeSpan[k]
             b == IF d <= 1 * TicksPerSecond THEN 1
                  ELSE IF d <= 3 * TicksPerSecond THEN 2
                  ELSE IF d <= 5 * TicksPerSecond THEN 3
                  ELSE 4
         IN  rangeActiveSpan_Closed(keys \ {k}, now,
                                    [activeSpanCount EXCEPT ![b] = @ + 1])

getActiveSpanCount_Closed(now) ==
    rangeActiveSpan_Closed(DOMAIN activeSpan, now, <<0, 0, 0, 0>>)

getActiveSpanCount(now) ==
    rangeActiveSpan(DOMAIN activeSpan, now, <<0, 0, 0, 0>>)

\* the callback of activeSpan.Range in getStats, applied to every key
RECURSIVE rangeActiveSpanInStats(_, _, _)
rangeActiveSpanInStats(keys, now, activeSpanCount) ==
    IF keys = {} THEN activeSpanCount
    ELSE LET k == CHOOSE x \in keys : TRUE
             d == now - activeSpan[k]
             b == IF d < 1 * TicksPerSecond THEN 1
                  ELSE IF d < 3 * TicksPerSecond THEN 2
                  ELSE IF d < 5 * TicksPerSecond THEN 3
                  ELSE 4
         IN  rangeActiveSpanInStats(keys \ {k}, now,
                                    [activeSpanCount EXCEPT ![b] = @ + 1])

(***************************************************************************)
(* getStats.  The divisions of lines 109-114 divide by int64(dur.Seconds()) *)
(* which is 0 for a duration below one second: Go panics on an integer     *)
(* division by zero, whatever the dividend, before line 118 is reached.    *)
(* The fields read from the operating system and the Go runtime (CPU,      *)
(* memory, GC, goroutines) are left out.                                   *)
(***************************************************************************)
getStats ==
    LET now == clock
        dur == now - lastCollectTime
        activeSpanCount ==
            rangeActiveSpanInStats(DOMAIN activeSpan, now, <<0, 0, 0, 0>>)
        divisor == Seconds(dur)
        since == [recorded |-> recorded, decided |-> decided, snapped |-> snapped]
    IN  IF divisor = 0
        THEN /\ panicked' = TRUE
             /\ ret' = [op |-> "getStats", returned |-> FALSE, dur |-> dur,
                        divisor |-> divisor, since |-> since]
             /\ UNCHANGED <<aggVars, histVars>>
        ELSE /\ ret' = [op |-> "getStats", returned |-> TRUE, dur |-> dur,
                        divisor |-> divisor, since |-> since,
                        sample |-> [sampleTime   |-> now,
                                    responseAvg  |-> calcResponseAvg,
                                    responseMax  |-> maxResponseTime,
                                    sampleNew    |-> sampleNew \div divisor,
                                    sampleCont   |-> sampleCont \div divisor,
                                    unSampleNew  |-> unsampleNew \div divisor,
                                    unSampleCont |-> unsampleCont \div divisor,
                                    skipNew      |-> skipNew \div divisor,
                                    skipCont     |-> skipCont \div divisor,
                                    activeSpan   |-> activeSpanCount]]
             /\ lastCollectTime' = now
             /\ resetResponseTime
             /\ recorded' = << >>
             /\ decided' = 0
             /\ snapped' = TRUE
             /\ panicked' = panicked

(***************************************************************************)
(* The actions of the aggregator and of the registry.                      *)
(***************************************************************************)
Tick(seconds) ==
    /\ ~panicked
    /\ clock < seconds * TicksPerSecond
    /\ clock' = clock + 1
    /\ ret' = [op |-> "tick"]
    /\ UNCHANGED <<aggVars, histVars, regVars, streamVars, retryVars, taskVars, panicked>>

TickStats == Tick(StatsSeconds)

TickRegistry == Tick(MaxSeconds)

CollectResponseTime ==
    /\ ~panicked
    /\ Len(recorded) < MaxRecords
    /\ \E resTime \in ResTimes : collectResponseTime(resTime)
    /\ UNCHANGED <<clock, regVars, streamVars, retryVars, taskVars>>

IncrFrame ==
    /\ ~panicked
    /\ decided < MaxDecisions
    /\ UNCHANGED <<clock, regVars, streamVars, retryVars, taskVars>>

IncrSampleNew == IncrFrame /\ incrSampleNew

IncrUnsampleNew == IncrFrame /\ incrUnsampleNew

IncrSampleCont == IncrFrame /\ incrSampleCont

IncrUnsampleCont == IncrFrame /\ incrUnsampleCont

IncrSkipNew == IncrFrame /\ incrSkipNew

IncrSkipCont == IncrFrame /\ incrSkipCont

GetStats ==
    /\ ~panicked
    /\ getStats
    /\ UNCHANGED <<clock, regVars, streamVars, retryVars, taskVars>>

\* a span is registered with the time at which it starts
AddActiveSpan ==
    /\ ~panicked
    /\ \E spanId \in SpanIds : addActiveSpan(spanId, clock)
    /\ UNCHANGED <<clock, aggVars, histVars, streamVars, retryVars, taskVars, panicked>>

DropActiveSpan ==
    /\ ~panicked
    /\ \E spanId \in SpanIds : dropActiveSpan(spanId)
    /\ UNCHANGED <<clock, aggVars, histVars, streamVars, retryVars, taskVars, panicked>>

GetActiveSpanCount_DropsCounted ==
    /\ ~panicked
    /\ ret' = [op |-> "getActiveSpanCount", now |-> clock,
               activeSpanCount |-> getActiveSpanCount(clock)]
    /\ activeSpan' = NoSpans
    /\ UNCHANGED <<clock, aggVars, histVars, spanOp, streamVars, retryVars,
                   taskVars, panicked>>

GetActiveSpanCount ==
    /\ ~panicked
    /\ ret' = [op |-> "getActiveSpanCount", now |-> clock,
               activeSpanCount |-> getActiveSpanCount(clock)]
    /\ UNCHANGED <<clock, aggVars, histVars, regVars, streamVars, retryVars,
                   taskVars, panicked>>

NextStats ==
    \/ TickStats
    \/ CollectResponseTime
    \/ IncrSampleNew
    \/ IncrUnsampleNew
    \/ IncrSampleCont
    \/ IncrUnsampleCont
    \/ IncrSkipNew
    \/ IncrSkipCont
    \/ GetStats

\* the aggregator: recordings, sampling decisions and snapshots
Spec == Init /\ [][NextStats]_vars

NextRegistry ==
    \/ TickRegistry
    \/ AddActiveSpan
    \/ DropActiveSpan
    \/ GetActiveSpanCount
    \/ GetStats

\* the registry: spans starting and ending, the histogram queried and snapshot
SpecRegistry == Init /\ [][NextRegistry]_vars

(***************************************************************************)
(* Claims about the aggregator, checked under Spec.                        *)
(***************************************************************************)
RateFields == {"sampleNew", "sampleCont", "unSampleNew", "unSampleCont",
               "skipNew", "skipCont"}

RECURSIVE SumSeq(_)
SumSeq(s) == IF s = << >> THEN 0 ELSE Head(s) + SumSeq(Tail(s))

RECURSIVE MaxSeq(_)
MaxSeq(s) ==
    IF s = << >> THEN 0
    ELSE LET m == MaxSeq(Tail(s)) IN IF Head(s) > m THEN Head(s) ELSE m

\* C2: snapshot() never divides by zero: whatever time has passed since the
\* previous snapshot, less than a second included, the divisor of the six
\* rates is at least 1 and the call returns a sample.
C2_DivisorAtLeastOne ==
    ret.op = "getStats" => (ret.divisor >= 1 /\ ret.returned)

\* C3: a snapshot taken immediately after a snapshot, with nothing recorded
\* in between, returns a sample whose six rate fields are all zero.
C3_SecondSnapshotZeroRates ==
    ( /\ ret.op = "getStats"
      /\ ret.since.snapped
      /\ ret.since.recorded = << >>
      /\ ret.since.decided = 0
      /\ ret.dur = 0 )
    => ( /\ ret.returned
         /\ \A f \in RateFields : ret.sample[f] = 0 )

\* C4: a snapshot that returns reports responseAvg = the sum of the response
\* times recorded since the previous snapshot, divided by their number with
\* integer division, 0 when there is none, and responseMax = the largest of
\* them.
C4_ResponseAvgAndMax ==
    (ret.op = "getStats" /\ ret.returned) =>
        LET r == ret.since.recorded
        IN  /\ ret.sample.responseAvg =
                   (IF Len(r) = 0 THEN 0 ELSE SumSeq(r) \div Len(r))
            /\ ret.sample.responseMax = MaxSeq(r)

C4_Witness ==
    /\ ret.op = "getStats"
    /\ ret.returned
    /\ ret.since.recorded = <<100, 300>>
    /\ ret.sample.responseAvg = 200
    /\ ret.sample.responseMax = 300

\* C5: when a snapshot returns, the response-time sum, the request count, the
\* maximum and the six sampling counters are zero and lastCollectTime is the
\* sample time of the returned sample; a following snapshot with nothing
\* recorded in between reports avg = 0 and max = 0.
C5_SnapshotResets ==
    (ret.op = "getStats" /\ ret.returned) =>
        /\ accResponseTime = 0
        /\ requestCount = 0
        /\ maxResponseTime = 0
        /\ sampleNew = 0
        /\ unsampleNew = 0
        /\ sampleCont = 0
        /\ unsampleCont = 0
        /\ skipNew = 0
        /\ skipCont = 0
        /\ lastCollectTime = ret.sample.sampleTime
        /\ (ret.since.snapped /\ ret.since.recorded = << >>) =>
               (ret.sample.responseAvg = 0 /\ ret.sample.responseMax = 0)

C5_Witness ==
    /\ ret.op = "getStats"
    /\ ret.returned
    /\ ret.since.snapped
    /\ Len(ret.since.recorded) = MaxRecords
    /\ ret.sample.responseMax > 0
    /\ ret.sample.skipCont > 0
    /\ ret.sample.sampleTime > 0
    /\ accResponseTime = 0
    /\ skipCont = 0

(***************************************************************************)
(* Claims about the registry, checked under SpecRegistry.                  *)
(***************************************************************************)
\* the histogram a call returned and the time it was asked for, if the last
\* call returned one
ReturnsHistogram ==
    \/ ret.op = "getActiveSpanCount"
    \/ (ret.op = "getStats" /\ ret.returned)

ReturnedHistogram ==
    IF ret.op = "getActiveSpanCount" THEN ret.activeSpanCount
                                     ELSE ret.sample.activeSpan

ReturnedNow ==
    IF ret.op = "getActiveSpanCount" THEN ret.now ELSE ret.sample.sampleTime

\* the bucket of an age, as the claims state it: [0,1s) [1s,3s) [3s,5s) [5s,..)
BucketOfAge(age) ==
    CASE age < TicksPerSecond -> 1
      [] age >= TicksPerSecond /\ age < 3 * TicksPerSecond -> 2
      [] age >= 3 * TicksPerSecond /\ age < 5 * TicksPerSecond -> 3
      [] age >= 5 * TicksPerSecond -> 4

\* C6: the four bucket counts of a histogram sum to the number of registered
\* spans, and each span is counted in the one bucket of its age, the
\* boundaries being half-open: ages of exactly 1, 3 and 5 seconds fall in
\* buckets 1, 2 and 3 (counted from 0).
C6_HistogramPartitionsSpans ==
    ReturnsHistogram =>
        LET h == ReturnedHistogram
            now == ReturnedNow
        IN  /\ h[1] + h[2] + h[3] + h[4] = Cardinality(DOMAIN activeSpan)
            /\ \A b \in 1 .. 4 :
                   h[b] = Cardinality({k \in DOMAIN activeSpan :
                                          BucketOfAge(now - activeSpan[k]) = b})

C6_Witness ==
    /\ ret.op = "getActiveSpanCount"
    /\ \E k \in DOMAIN activeSpan : ret.now - activeSpan[k] = 1 * TicksPerSecond
    /\ \E k \in DOMAIN activeSpan : ret.now - activeSpan[k] = 5 * TicksPerSecond
    /\ ret.activeSpanCount = <<0, 1, 0, 1>>

\* C7: a histogram counts exactly the span ids whose last operation was an
\* add, each once and by the age of that add; a removed span id is counted in
\* no bucket.
C7_HistogramCountsAddedSpans ==
    ReturnsHistogram =>
        LET h == ReturnedHistogram
            now == ReturnedNow
        IN  \A b \in 1 .. 4 :
                h[b] = Cardinality({id \in SpanIds :
                                       /\ spanOp[id].op = "add"
                                       /\ BucketOfAge(now - spanOp[id].start) = b})

C7_Witness ==
    /\ ret.op = "getActiveSpanCount"
    /\ spanOp[7] = [op |-> "add", start |-> 0]
    /\ spanOp[8].op = "drop"
    /\ ret.now = 4 * TicksPerSecond
    /\ ret.activeSpanCount = <<0, 0, 1, 0>>

\* C22: the histogram is read-only: the stand-alone query and the snapshot
\* leave the registered span ids and their start times as they were.
C22_HistogramReadOnly ==
    [][(ret'.op \in {"getActiveSpanCount", "getStats"}) =>
           activeSpan' = activeSpan]_vars

C22_Witness ==
    /\ ret.op = "getActiveSpanCount"
    /\ DOMAIN activeSpan = SpanIds
    /\ ret.activeSpanCount[1] + ret.activeSpanCount[2] + ret.activeSpanCount[3]
           + ret.activeSpanCount[4] = NumSpans

(***************************************************************************)
(* The channel streams (src/unnamed/part_000).  A stream object holds a    *)
(* handle, "nil" or "live"; the model keeps one object of each kind.  A    *)
(* call of the transport (Send, Recv, CloseSend, CloseAndRecv) returns nil *)
(* or an error, whichever the collector and the network make it return.    *)
(* ret.calls lists the transport calls the last operation made.            *)
(***************************************************************************)
TransportErrs == {"nil", "error"}
ReqIds == {1, 2}
CmdRequests == {"ECHO", "ACTIVE_THREAD_COUNT"}
StatBatches == {<<1>>, <<1, 2>>}
\* pushes on one active-thread-count stream
MaxPushes == 2
\* ping streams opened on one connection
MaxPingStreams == 2

\* grpcMetadataContext(agent, socketId): the keys of the outgoing metadata
\* and the socketid, which is set only if socketId > 0
grpcMetadataContext(socketId) ==
    IF socketId > 0
    THEN [keys |-> {"agentid", "applicationname", "starttime", "socketid"},
          socketid |-> socketId]
    ELSE [keys |-> {"agentid", "applicationname", "starttime"}]

\* status.Errorf(codes.Unavailable, ...) returned before any transport call
unavailable(op, kind) ==
    [op |-> op, kind |-> kind, handle |-> "nil", err |-> "Unavailable",
     calls |-> << >>]

opened(op, kind, ok) ==
    [op |-> op, kind |-> kind, handle |-> IF ok THEN "live" ELSE "nil"]

\* agentGrpc.pingSocketId++
\* ctx := grpcMetadataContext(agentGrpc.agent, agentGrpc.pingSocketId)
newPingStream(ok) ==
    /\ pingSocketId' = pingSocketId + 1
    /\ stream' = [stream EXCEPT !["ping"] = IF ok THEN "live" ELSE "nil"]
    /\ ctxDone' = [ctxDone EXCEPT !["ping"] = FALSE]
    /\ ret' = opened("newPingStream", "ping", ok)
                  @@ [md |-> grpcMetadataContext(pingSocketId + 1)]
    /\ UNCHANGED <<cmdReq, reqId, actCount, panicked>>

\* ctx, cancel := context.WithCancel(ctx); defer cancel(): the context of the
\* stream is cancelled when newSpanStream returns
newSpanStream(ok) ==
    /\ stream' = [stream EXCEPT !["span"] = IF ok THEN "live" ELSE "nil"]
    /\ ctxDone' = [ctxDone EXCEPT !["span"] = ok]
    /\ ret' = opened("newSpanStream", "span", ok) @@ [md |-> grpcMetadataContext(-1)]
    /\ UNCHANGED <<cmdReq, reqId, actCount, pingSocketId, panicked>>

newStatStream(ok) ==
    /\ stream' = [stream EXCEPT !["stat"] = IF ok THEN "live" ELSE "nil"]
    /\ ctxDone' = [ctxDone EXCEPT !["stat"] = FALSE]
    /\ ret' = opened("newStatStream", "stat", ok) @@ [md |-> grpcMetadataContext(-1)]
    /\ UNCHANGED <<cmdReq, reqId, actCount, pingSocketId, panicked>>

newHandleCommandStream(ok) ==
    /\ stream' = [stream EXCEPT !["cmd"] = IF ok THEN "live" ELSE "nil"]
    /\ ctxDone' = [ctxDone EXCEPT !["cmd"] = FALSE]
    /\ cmdReq' = "nil"
    /\ ret' = opened("newHandleCommandStream", "cmd", ok) @@ [md |-> grpcMetadataContext(-1)]
    /\ UNCHANGED <<reqId, actCount, pingSocketId, panicked>>

newActiveThreadCountStream(id, ok) ==
    /\ stream' = [stream EXCEPT !["atc"] = IF ok THEN "live" ELSE "nil"]
    /\ ctxDone' = [ctxDone EXCEPT !["atc"] = FALSE]
    /\ reqId' = IF ok THEN id ELSE -1
    /\ actCount' = 0
    /\ ret' = opened("newActiveThreadCountStream", "atc", ok)
                  @@ [reqId |-> id, md |-> grpcMetadataContext(-1)]
    /\ UNCHANGED <<cmdReq, pingSocketId, panicked>>

\* spanStream.setStreamInvoker and statStream.setStreamInvoker
setStreamInvoker(kind, invoker) ==
    /\ stream' = [stream EXCEPT ![kind] = invoker]
    /\ ctxDone' = [ctxDone EXCEPT ![kind] = FALSE]
    /\ ret' = [op |-> "setStreamInvoker", kind |-> kind, handle |-> invoker]
    /\ UNCHANGED <<cmdReq, reqId, actCount, pingSocketId, panicked>>

sendPing(sendErr) ==
    /\ ret' = IF stream["ping"] = "nil"
              THEN unavailable("sendPing", "ping")
              ELSE [op |-> "sendPing", kind |-> "ping", handle |-> "live",
                    err |-> sendErr,
                    calls |-> <<[call |-> "Send", msg |-> [shape |-> "PPing"]]>>]
    /\ UNCHANGED <<streamVars, panicked>>

\* annotations.AppendString(key, s): the entry is appended to the list of
\* the receiver
AppendString(annotations, key, str) ==
    Append(annotations, [key |-> key, value |-> str])

\* the span event as makePSpanEvent leaves it:
\* if event.apiId == 0 && event.operationName != "" {
\*     event.annotations.AppendString(12, event.operationName) }
spanEventEncoded(event) ==
    IF event.apiId = 0 /\ event.operationName # ""
    THEN [event EXCEPT !.annotations = AppendString(@, 12, event.operationName)]
    ELSE event

\* the message makePSpanEvent returns: Annotation is the list after the append
makePSpanEvent(event) ==
    [shape |-> "PSpanEvent", apiId |-> event.apiId,
     annotation |-> spanEventEncoded(event).annotations]

\* the span as makePSpan leaves it:
\* span.annotations.AppendString(12, span.operationName), and makePSpanEvent
\* on each of span.spanEvents
spanEncoded(span) ==
    [span EXCEPT !.annotations = AppendString(@, 12, span.operationName),
                 !.spanEvents = [i \in DOMAIN @ |-> spanEventEncoded(@[i])]]

\* the span as makePSpanChunk leaves it: makePSpanEvent on each span event
spanChunkEncoded(span) ==
    [span EXCEPT !.spanEvents = [i \in DOMAIN @ |-> spanEventEncoded(@[i])]]

makePSpan(span) ==
    [shape |-> "PSpanMessage_Span", spanId |-> span.spanId,
     annotation |-> spanEncoded(span).annotations,
     spanEvent |-> [i \in DOMAIN span.spanEvents |->
                       makePSpanEvent(span.spanEvents[i])]]

makePSpanChunk(span) ==
    [shape |-> "PSpanMessage_SpanChunk", spanId |-> span.spanId,
     asyncId |-> span.asyncId,
     spanEvent |-> [i \in DOMAIN span.spanEvents |->
                       makePSpanEvent(span.spanEvents[i])]]

sendSpan_PositiveIsChunk(span, sendErr) ==
    /\ ret' = IF stream["span"] = "nil"
              THEN unavailable("sendSpan", "span")
                       @@ [asyncId |-> span.asyncId, span |-> span]
              ELSE LET gspan == IF span.asyncId > 0 THEN makePSpanChunk(span)
                                                    ELSE makePSpan(span)
                   IN  [op |-> "sendSpan", kind |-> "span", handle |-> "live",
                        err |-> sendErr, asyncId |-> span.asyncId,
                        calls |-> <<[call |-> "Send", msg |-> gspan]>>,
                        span |-> IF span.asyncId > 0 THEN spanChunkEncoded(span)
                                                     ELSE spanEncoded(span)]
    /\ UNCHANGED <<streamVars, panicked>>

\* ret.span is the span as the call leaves it
sendSpan(span, sendErr) ==
    /\ ret' = IF stream["span"] = "nil"
              THEN unavailable("sendSpan", "span")
                       @@ [asyncId |-> span.asyncId, span |-> span]
              ELSE LET gspan == IF span.asyncId = 0 THEN makePSpan(span)
                                                    ELSE makePSpanChunk(span)
                   IN  [op |-> "sendSpan", kind |-> "span", handle |-> "live",
                        err |-> sendErr, asyncId |-> span.asyncId,
                        calls |-> <<[call |-> "Send", msg |-> gspan]>>,
                        span |-> IF span.asyncId = 0 THEN spanEncoded(span)
                                                     ELSE spanChunkEncoded(span)]
    /\ UNCHANGED <<streamVars, panicked>>

\* s.stream.CloseSend() with no check of the handle: a method call on a nil
\* interface value panics
sendSpanFinish(closeErr) ==
    /\ IF stream["span"] = "nil"
       THEN /\ panicked' = TRUE
            /\ ret' = [op |-> "sendSpanFinish", kind |-> "span", handle |-> "nil",
                       calls |-> << >>]
       ELSE /\ panicked' = panicked
            /\ ret' = [op |-> "sendSpanFinish", kind |-> "span", handle |-> "live",
                       calls |-> <<[call |-> "CloseSend", err |-> closeErr]>>]
    /\ UNCHANGED streamVars

makePAgentStat(stat) ==
    [stat |-> stat, collectInterval |-> 5000]

sendStats_NoNilCheck(stats, sendErr) ==
    /\ IF stream["stat"] = "nil"
       THEN /\ panicked' = TRUE
            /\ ret' = [op |-> "sendStats", kind |-> "stat", handle |-> "nil",
                       err |-> "panic", calls |-> << >>]
       ELSE /\ panicked' = panicked
            /\ ret' = [op |-> "sendStats", kind |-> "stat", handle |-> "live",
                       err |-> sendErr,
                       calls |-> <<[call |-> "Send",
                                    msg |-> [shape |-> "PStatMessage_AgentStatBatch",
                                             agentStat |-> stats]]>>]
    /\ UNCHANGED streamVars

sendStats(stats, sendErr) ==
    /\ ret' = IF stream["stat"] = "nil"
              THEN unavailable("sendStats", "stat")
              ELSE LET as == [i \in DOMAIN stats |-> makePAgentStat(stats[i])]
                   IN  [op |-> "sendStats", kind |-> "stat", handle |-> "live",
                        err |-> sendErr,
                        calls |-> <<[call |-> "Send",
                                     msg |-> [shape |-> "PStatMessage_AgentStatBatch",
                                              agentStat |-> as]]>>]
    /\ UNCHANGED <<streamVars, panicked>>

sendCommandMessage(sendErr) ==
    /\ ret' = IF stream["cmd"] = "nil"
              THEN unavailable("sendCommandMessage", "cmd")
              ELSE [op |-> "sendCommandMessage", kind |-> "cmd", handle |-> "live",
                    err |-> sendErr,
                    calls |-> <<[call |-> "Send",
                                 msg |-> [shape |-> "PCmdMessage_HandshakeMessage"]]>>]
    /\ UNCHANGED <<streamVars, panicked>>

recvCommandRequest(recvErr, gCmdReq) ==
    /\ ret' = IF stream["cmd"] = "nil"
              THEN unavailable("recvCommandRequest", "cmd")
              ELSE [op |-> "recvCommandRequest", kind |-> "cmd", handle |-> "live",
                    err |-> recvErr, calls |-> <<[call |-> "Recv"]>>]
    /\ cmdReq' = IF stream["cmd"] # "nil" /\ recvErr = "nil" THEN gCmdReq ELSE cmdReq
    /\ UNCHANGED <<stream, ctxDone, reqId, actCount, pingSocketId, panicked>>

sendActiveThreadCount_CountsOnSuccess(sendErr) ==
    IF stream["atc"] = "nil"
    THEN /\ ret' = unavailable("sendActiveThreadCount", "atc")
         /\ UNCHANGED <<streamVars, panicked>>
    ELSE LET now == clock
             activeThreadCount == getActiveSpanCount(now)
             gRes == [shape |-> "PCmdActiveThreadCountRes",
                      responseId |-> reqId,
                      sequenceId |-> actCount + 1,
                      activeThreadCount |-> activeThreadCount,
                      timeStamp |-> now]
         IN  /\ actCount' = IF sendErr = "nil" THEN actCount + 1 ELSE actCount
             /\ ret' = [op |-> "sendActiveThreadCount", kind |-> "atc",
                        handle |-> "live", err |-> sendErr,
                        calls |-> <<[call |-> "Send", msg |-> gRes]>>]
             /\ UNCHANGED <<stream, ctxDone, cmdReq, reqId, pingSocketId, panicked>>

sendActiveThreadCount(sendErr) ==
    IF stream["atc"] = "nil"
    THEN /\ ret' = unavailable("sendActiveThreadCount", "atc")
         /\ UNCHANGED <<streamVars, panicked>>
    ELSE LET now == clock
             activeThreadCount == getActiveSpanCount(now)
             gRes == [shape |-> "PCmdActiveThreadCountRes",
                      responseId |-> reqId,
                      sequenceId |-> actCount + 1,
                      activeThreadCount |-> activeThreadCount,
                      timeStamp |-> now]
         IN  /\ actCount' = actCount + 1
             /\ ret' = [op |-> "sendActiveThreadCount", kind |-> "atc",
                        handle |-> "live", err |-> sendErr,
                        calls |-> <<[call |-> "Send", msg |-> gRes]>>]
             /\ UNCHANGED <<stream, ctxDone, cmdReq, reqId, pingSocketId, panicked>>

\* the close of a stream kind: nothing on a nil handle, else one closing call
\* of the transport, whose error is logged, and the handle set to nil
closeWith(op, kind, call, closeErr) ==
    /\ ret' = [op |-> op, kind |-> kind, handle |-> stream[kind],
               calls |-> IF stream[kind] = "nil" THEN << >>
                         ELSE <<[call |-> call, err |-> closeErr]>>]
    /\ stream' = [stream EXCEPT ![kind] = "nil"]
    /\ UNCHANGED <<ctxDone, cmdReq, reqId, actCount, pingSocketId, panicked>>

\* the close that half-closes whatever the handle is
pingStreamClose_NoNilCheck(closeErr) ==
    /\ ret' = [op |-> "pingStream.close", kind |-> "ping",
               handle |-> stream["ping"],
               calls |-> <<[call |-> "CloseSend", err |-> closeErr]>>]
    /\ stream' = [stream EXCEPT !["ping"] = "nil"]
    /\ UNCHANGED <<ctxDone, cmdReq, reqId, actCount, pingSocketId, panicked>>

pingStreamClose(closeErr) ==
    closeWith("pingStream.close", "ping", "CloseSend", closeErr)

spanStreamClose_KeepsHandleOnError(closeErr) ==
    /\ ret' = [op |-> "spanStream.close", kind |-> "span", handle |-> stream["span"],
               calls |-> IF stream["span"] = "nil" THEN << >>
                         ELSE <<[call |-> "CloseAndRecv", err |-> closeErr]>>]
    /\ stream' = IF closeErr = "nil" THEN [stream EXCEPT !["span"] = "nil"]
                                      ELSE stream
    /\ UNCHANGED <<ctxDone, cmdReq, reqId, actCount, pingSocketId, panicked>>

spanStreamClose(closeErr) ==
    closeWith("spanStream.close", "span", "CloseAndRecv", closeErr)

statStreamClose(closeErr) ==
    closeWith("statStream.close", "stat", "CloseAndRecv", closeErr)

cmdStreamClose(closeErr) ==
    closeWith("cmdStream.close", "cmd", "CloseSend", closeErr)

activeThreadCountStreamClose(closeErr) ==
    closeWith("activeThreadCountStream.close", "atc", "CloseSend", closeErr)

(***************************************************************************)
(* The actions of the streams.                                             *)
(***************************************************************************)
StreamFrame ==
    /\ ~panicked
    /\ UNCHANGED <<clock, aggVars, histVars, regVars, retryVars, taskVars>>

NewPingStream ==
    /\ StreamFrame
    /\ pingSocketId < MaxPingStreams
    /\ \E ok \in BOOLEAN : newPingStream(ok)

NewSpanStream == StreamFrame /\ \E ok \in BOOLEAN : newSpanStream(ok)

NewStatStream == StreamFrame /\ \E ok \in BOOLEAN : newStatStream(ok)

NewHandleCommandStream ==
    StreamFrame /\ \E ok \in BOOLEAN : newHandleCommandStream(ok)

NewActiveThreadCountStream ==
    StreamFrame /\ \E id \in ReqIds, ok \in BOOLEAN :
                       newActiveThreadCountStream(id, ok)

SetStreamInvoker ==
    StreamFrame /\ \E kind \in {"span", "stat"}, invoker \in {"nil", "live"} :
                       setStreamInvoker(kind, invoker)

SendPing == StreamFrame /\ \E e \in TransportErrs : sendPing(e)

SendSpan ==
    StreamFrame /\ \E a \in AsyncIds, e \in TransportErrs :
                       sendSpan([NoSpan EXCEPT !.asyncId = a], e)

SendSpanFinish == StreamFrame /\ \E e \in TransportErrs : sendSpanFinish(e)

SendStats ==
    StreamFrame /\ \E stats \in StatBatches, e \in TransportErrs :
                       sendStats(stats, e)

SendCommandMessage ==
    StreamFrame /\ \E e \in TransportErrs : sendCommandMessage(e)

RecvCommandRequest ==
    StreamFrame /\ \E e \in TransportErrs, req \in CmdRequests :
                       recvCommandRequest(e, req)

SendActiveThreadCount ==
    /\ StreamFrame
    /\ actCount < MaxPushes
    /\ \E e \in TransportErrs : sendActiveThreadCount(e)

PingStreamClose == StreamFrame /\ \E e \in TransportErrs : pingStreamClose(e)

SpanStreamClose == StreamFrame /\ \E e \in TransportErrs : spanStreamClose(e)

StatStreamClose == StreamFrame /\ \E e \in TransportErrs : statStreamClose(e)

CmdStreamClose == StreamFrame /\ \E e \in TransportErrs : cmdStreamClose(e)

ActiveThreadCountStreamClose ==
    StreamFrame /\ \E e \in TransportErrs : activeThreadCountStreamClose(e)

NextStream ==
    \/ NewPingStream
    \/ NewSpanStream
    \/ NewStatStream
    \/ NewHandleCommandStream
    \/ NewActiveThreadCountStream
    \/ SetStreamInvoker
    \/ SendPing
    \/ SendSpan
    \/ SendSpanFinish
    \/ SendStats
    \/ SendCommandMessage
    \/ RecvCommandRequest
    \/ SendActiveThreadCount
    \/ PingStreamClose
    \/ SpanStreamClose
    \/ StatStreamClose
    \/ CmdStreamClose
    \/ ActiveThreadCountStreamClose

\* the streams: opened, sent on, received from and closed in any order
SpecStream == Init /\ [][NextStream]_vars

(***************************************************************************)
(* Claims about the streams, checked under SpecStream.                     *)
(***************************************************************************)
SendRecvOps == {"sendPing", "sendSpan", "sendStats", "sendCommandMessage",
                "recvCommandRequest", "sendActiveThreadCount"}

C9_AsyncIdSelectsShape ==
    (ret.op = "sendSpan" /\ ret.handle = "live") =>
        /\ Len(ret.calls) = 1
        /\ ret.calls[1].call = "Send"
        /\ (ret.calls[1].msg.shape = "PSpanMessage_Span") <=> (ret.asyncId = 0)
        /\ (ret.calls[1].msg.shape = "PSpanMessage_SpanChunk") <=> (ret.asyncId # 0)

C9_Witness ==
    /\ ret.op = "sendSpan"
    /\ ret.handle = "live"
    /\ ret.asyncId = -1
    /\ ret.calls[1].msg.shape = "PSpanMessage_SpanChunk"

\* C19: on one active-thread-count stream the pushes made with a live handle
\* carry the sequence numbers 1, 2, 3, ..., a push that failed to send
\* counted, and every push carries the request id the stream was opened with:
\* the open sets the request id and starts the numbering, a push takes the
\* next number, and nothing else changes either.
C19_SequenceAndRequestId ==
    [][/\ (ret'.op = "newActiveThreadCountStream" /\ ret'.handle = "live") =>
              (reqId' = ret'.reqId /\ actCount' = 0)
       /\ (ret'.op = "sendActiveThreadCount" /\ ret'.handle = "live") =>
              /\ ret'.calls[1].msg.sequenceId = actCount + 1
              /\ actCount' = actCount + 1
              /\ ret'.calls[1].msg.responseId = reqId
              /\ reqId' = reqId
       /\ (ret'.op \notin {"newActiveThreadCountStream", "sendActiveThreadCount"}) =>
              (reqId' = reqId /\ actCount' = actCount)]_vars

C19_Witness ==
    /\ ret.op = "sendActiveThreadCount"
    /\ ret.handle = "live"
    /\ ret.err = "error"
    /\ ret.calls[1].msg.sequenceId = 2
    /\ ret.calls[1].msg.responseId = 2
    /\ actCount = 2

\* C20: every ping stream and every command stream is opened with a
\* socketid in its outgoing metadata, greater than the socketid of every
\* stream opened before it on the connection; span streams and stat streams
\* are opened with no socketid.
C20_SocketIdPerStreamInstance ==
    [][/\ (ret'.op = "newPingStream") =>
              /\ "socketid" \in ret'.md.keys
              /\ ret'.md.socketid > pingSocketId
              /\ pingSocketId' = ret'.md.socketid
       /\ (ret'.op = "newHandleCommandStream") => "socketid" \in ret'.md.keys
       /\ (ret'.op \in {"newSpanStream", "newStatStream"}) =>
              "socketid" \notin ret'.md.keys
       /\ (ret'.op # "newPingStream") => pingSocketId' = pingSocketId]_vars

\* C21: close() on a live span stream, and on a live stat stream, makes
\* exactly one transport call, CloseAndRecv, and leaves the handle nil,
\* whether CloseAndRecv returned nil or an error.
C21_CloseHalfClosesOnce ==
    (ret.op \in {"spanStream.close", "statStream.close"} /\ ret.handle = "live") =>
        /\ Len(ret.calls) = 1
        /\ ret.calls[1].call = "CloseAndRecv"
        /\ stream[ret.kind] = "nil"

C21_Witness ==
    /\ ret.op = "spanStream.close"
    /\ ret.handle = "live"
    /\ ret.calls = <<[call |-> "CloseAndRecv", err |-> "error"]>>
    /\ stream["span"] = "nil"

(***************************************************************************)
(* The back-off and the retry loops (src/unnamed/part_000).                *)
(***************************************************************************)
\* base * math.Pow(2, float64(attempt)) in milliseconds: dur doubled attempt
\* times.  The float64 of the code does not overflow for attempt < 100; here
\* the doubling stops once the value is above MaxDelay, and any value above
\* MaxDelay stands for the product, which the cap of backOffDur replaces.
RECURSIVE doubled(_, _)
doubled(dur, times) ==
    IF times = 0 \/ dur > MaxDelay THEN dur ELSE doubled(2 * dur, times - 1)

scaledBase(attempt) == doubled(BaseDelay, attempt)

backOffDur_NoCap(attempt) == scaledBase(attempt)

\* dur := base * math.Pow(2, float64(attempt)); if dur > max { dur = max }
backOffDur(attempt) ==
    LET dur == scaledBase(attempt)
    IN  IF dur > MaxDelay THEN MaxDelay ELSE dur

\* jitter := time.Duration(rand.Float64()*(dur-base) + base) with
\* rand.Float64() = r / RandSteps, a number of [0, 1)
backOffJitter(attempt, r) ==
    (r * (backOffDur(attempt) - BaseDelay)) \div RandSteps + BaseDelay

backOffSleep(attempt, r) ==
    slept' = [attempt     |-> attempt,
              dur         |-> backOffDur(attempt),
              jitter      |-> backOffJitter(attempt, r),
              prevAttempt |-> slept.attempt,
              prevDur     |-> slept.dur]

\* one step of a loop that opens a stream with retry:
\*   for n := 1; n < 100; n++ {
\*       if !agent.Enable() { break }
\*       s := newStream(); if s.stream != nil { return s }
\*       backOffSleep(n)
\*   }
\*   return nil stream
streamRetryHead ==
    /\ pc = "head"
    /\ IF n < RetryLimit /\ enable
       THEN pc' = "attempt" /\ loopRet' = loopRet
       ELSE pc' = "done" /\ loopRet' = "nil"
    /\ ret' = [op |-> "poll", enable |-> enable]
    /\ UNCHANGED <<n, slept, streamVars>>

\* the stream object the attempt made is stream'[loop]
streamRetryAttempt ==
    /\ pc = "attempt"
    /\ IF stream'[loop] # "nil"
       THEN pc' = "done" /\ loopRet' = "stream"
       ELSE pc' = "sleep" /\ loopRet' = loopRet
    /\ UNCHANGED <<n, slept>>

retrySleep ==
    /\ pc = "sleep"
    /\ \E r \in 0 .. RandSteps - 1 : backOffSleep(n, r)
    /\ n' = n + 1
    /\ pc' = "head"
    /\ ret' = [op |-> "backOffSleep"]
    /\ UNCHANGED <<loopRet, streamVars>>

newPingStreamWithRetry ==
    /\ loop = "ping"
    /\ \/ streamRetryHead
       \/ (\E ok \in BOOLEAN : newPingStream(ok)) /\ streamRetryAttempt
       \/ retrySleep

newSpanStreamWithRetry ==
    /\ loop = "span"
    /\ \/ streamRetryHead
       \/ (\E ok \in BOOLEAN : newSpanStream(ok)) /\ streamRetryAttempt
       \/ retrySleep

newStatStreamWithRetry ==
    /\ loop = "stat"
    /\ \/ streamRetryHead
       \/ (\E ok \in BOOLEAN : newStatStream(ok)) /\ streamRetryAttempt
       \/ retrySleep

newCommandStreamWithRetry ==
    /\ loop = "cmd"
    /\ \/ streamRetryHead
       \/ (\E ok \in BOOLEAN : newHandleCommandStream(ok)) /\ streamRetryAttempt
       \/ retrySleep

\* the loop that returns on the first failed dial
connectToCollectorWithRetry_NoRetry ==
    /\ loop = "dial"
    /\ \/ /\ pc = "head"
          /\ IF n < RetryLimit
             THEN pc' = "attempt" /\ loopRet' = loopRet
             ELSE pc' = "done" /\ loopRet' = "err"
          /\ ret' = [op |-> "loopTest"]
          /\ UNCHANGED <<n, slept, streamVars>>
       \/ /\ pc = "attempt"
          /\ \E err \in TransportErrs :
                /\ ret' = [op |-> "grpc.Dial", err |-> err]
                /\ pc' = "done"
                /\ loopRet' = IF err = "nil" THEN "conn" ELSE "err"
          /\ UNCHANGED <<n, slept, streamVars>>
       \/ retrySleep

\*   for n := 1; n < 100; n++ {
\*       conn, err = grpc.Dial(serverAddr, opts...); if err == nil { break }
\*       backOffSleep(n)
\*   }
\*   return conn, err
\* The function has no agent among its arguments and reads no enabled flag.
connectToCollectorWithRetry ==
    /\ loop = "dial"
    /\ \/ /\ pc = "head"
          /\ IF n < RetryLimit
             THEN pc' = "attempt" /\ loopRet' = loopRet
             ELSE pc' = "done" /\ loopRet' = "err"
          /\ ret' = [op |-> "loopTest"]
          /\ UNCHANGED <<n, slept, streamVars>>
       \/ /\ pc = "attempt"
          /\ \E err \in TransportErrs :
                /\ ret' = [op |-> "grpc.Dial", err |-> err]
                /\ IF err = "nil"
                   THEN pc' = "done" /\ loopRet' = "conn"
                   ELSE pc' = "sleep" /\ loopRet' = loopRet
          /\ UNCHANGED <<n, slept, streamVars>>
       \/ retrySleep

(***************************************************************************)
(* The actions of the retry loops.  The agent is disabled by its shutdown, *)
(* at any time.                                                            *)
(***************************************************************************)
RetryFrame ==
    /\ ~panicked
    /\ UNCHANGED <<clock, aggVars, histVars, regVars, taskVars, enable, loop,
                   panicked>>

Disable ==
    /\ ~panicked
    /\ enable
    /\ enable' = FALSE
    /\ ret' = [op |-> "disable"]
    /\ UNCHANGED <<clock, aggVars, histVars, regVars, streamVars, taskVars,
                   loop, pc, n, slept, loopRet, panicked>>

ConnectToCollectorWithRetry == RetryFrame /\ connectToCollectorWithRetry

NewPingStreamWithRetry == RetryFrame /\ newPingStreamWithRetry

NewSpanStreamWithRetry == RetryFrame /\ newSpanStreamWithRetry

NewStatStreamWithRetry == RetryFrame /\ newStatStreamWithRetry

NewCommandStreamWithRetry == RetryFrame /\ newCommandStreamWithRetry

NextRetry ==
    \/ Disable
    \/ ConnectToCollectorWithRetry
    \/ NewPingStreamWithRetry
    \/ NewSpanStreamWithRetry
    \/ NewStatStreamWithRetry
    \/ NewCommandStreamWithRetry

\* one retry loop from its entry to its return, the agent disabled at any time
SpecRetry == InitRetry /\ [][NextRetry]_vars

(***************************************************************************)
(* Claims about the back-off and the retry loops, checked under SpecRetry. *)
(***************************************************************************)
Min(a, b) == IF a < b THEN a ELSE b

\* C8: for every attempt number n >= 1 the delay before jitter is
\* min(60s, 1s * 2^n), it does not decrease from one attempt to the next, and
\* the delay slept lies in [1s, min(60s, 1s * 2^n)], so in [1s, 60s].
C8_BackoffWithinBounds ==
    slept.attempt >= 1 =>
        /\ slept.dur = (IF slept.attempt <= 20
                        THEN Min(MaxDelay, BaseDelay * 2 ^ slept.attempt)
                        ELSE MaxDelay)
        /\ slept.prevAttempt >= 1 =>
               (slept.prevAttempt < slept.attempt /\ slept.prevDur <= slept.dur)
        /\ BaseDelay <= slept.jitter
        /\ slept.jitter <= slept.dur
        /\ slept.dur <= MaxDelay

C8_Witness ==
    /\ slept.attempt = 6
    /\ slept.dur = MaxDelay
    /\ slept.prevDur = 32 * BaseDelay
    /\ slept.jitter > BaseDelay
    /\ slept.jitter < MaxDelay

\* C10: every retry loop polls the enabled flag before each attempt: a loop
\* that comes to the head of its body with the agent disabled makes no
\* further attempt and no further sleep, and returns.
C10_DisabledLoopReturns ==
    [][(~enable /\ pc = "head") => (pc' = "done")]_vars

\* C11: a loop that opens a stream with retry returns a nil stream handle
\* only if its poll of agent.Enable() saw the agent disabled; with the agent
\* enabled it keeps retrying, however many opens have failed.
C11_NilOnlyWhenDisabled ==
    (loop \in {"ping", "span", "stat", "cmd"} /\ ret.op = "poll"
         /\ pc = "done" /\ loopRet = "nil") => ~ret.enable

(***************************************************************************)
(* The aggregator under concurrency (src/unnamed/part_001).  The goroutines *)
(* of the application record response times and sampling decisions while   *)
(* the stats worker starts up and takes its snapshots.  A function that     *)
(* holds statsMux excludes the others that take it; a function that does   *)
(* not take it is interleaved statement by statement, and x++ on a package  *)
(* variable is a load followed by a store.                                 *)
(***************************************************************************)
\* calls one goroutine makes
MaxCalls == 1
\* snapshots the worker takes
MaxSnapshots == 2
\* response times the goroutines record
RaceTimes == {100, 300}

counterOf(kind) ==
    CASE kind = "sampleNew"    -> sampleNew
      [] kind = "unsampleNew"  -> unsampleNew
      [] kind = "sampleCont"   -> sampleCont
      [] kind = "unsampleCont" -> unsampleCont
      [] kind = "skipNew"      -> skipNew
      [] kind = "skipCont"     -> skipCont

setCounter(kind, v) ==
    /\ sampleNew'    = IF kind = "sampleNew"    THEN v ELSE sampleNew
    /\ unsampleNew'  = IF kind = "unsampleNew"  THEN v ELSE unsampleNew
    /\ sampleCont'   = IF kind = "sampleCont"   THEN v ELSE sampleCont
    /\ unsampleCont' = IF kind = "unsampleCont" THEN v ELSE unsampleCont
    /\ skipNew'      = IF kind = "skipNew"      THEN v ELSE skipNew
    /\ skipCont'     = IF kind = "skipCont"     THEN v ELSE skipCont

counterVars == <<sampleNew, unsampleNew, sampleCont, unsampleCont, skipNew, skipCont>>
responseVars == <<accResponseTime, maxResponseTime, requestCount>>

\* the worker has run its initStats() and its start-up resetResponseTime()
workerStarted ==
    /\ worker.pc # "initStats"
    /\ ~(worker.caller = "startup" /\ worker.pc # "sleep")

\* incrSampleNew() .. incrSkipCont(): the load of counter++, no lock taken.
\* tally.early records a decision made before the worker had started.
incrLoad(g, kind) ==
    /\ gor[g].pc = "idle"
    /\ gor[g].calls < MaxCalls
    /\ gor' = [gor EXCEPT ![g] = [@ EXCEPT !.pc = "incr.store", !.kind = kind,
                                           !.reg = counterOf(kind)]]
    /\ tally' = [tally EXCEPT !.early = @ \/ ~workerStarted]
    /\ ret' = [op |-> "incr.load", kind |-> kind]
    /\ UNCHANGED <<clock, aggVars, mux, worker>>

\* the store of counter++
incrStore(g) ==
    /\ gor[g].pc = "incr.store"
    /\ setCounter(gor[g].kind, gor[g].reg + 1)
    /\ gor' = [gor EXCEPT ![g] = [@ EXCEPT !.pc = "idle", !.calls = @ + 1]]
    /\ tally' = [tally EXCEPT !.decided[gor[g].kind] = @ + 1]
    /\ ret' = [op |-> "incr.store", kind |-> gor[g].kind]
    /\ UNCHANGED <<clock, lastCollectTime, responseVars, mux, worker>>

\* collectResponseTime(resTime): statsMux.Lock()
collectLock(g, resTime) ==
    /\ gor[g].pc = "idle"
    /\ gor[g].calls < MaxCalls
    /\ mux = "free"
    /\ mux' = g
    /\ gor' = [gor EXCEPT ![g] = [@ EXCEPT !.pc = "collect.acc", !.resTime = resTime]]
    /\ ret' = [op |-> "collect.lock", resTime |-> resTime]
    /\ UNCHANGED <<clock, aggVars, worker, tally>>

\* accResponseTime += resTime
collectAcc(g) ==
    /\ gor[g].pc = "collect.acc"
    /\ accResponseTime' = accResponseTime + gor[g].resTime
    /\ gor' = [gor EXCEPT ![g].pc = "collect.count"]
    /\ ret' = [op |-> "collect.acc"]
    /\ UNCHANGED <<clock, lastCollectTime, maxResponseTime, requestCount,
                   counterVars, mux, worker, tally>>

\* requestCount++
collectCount(g) ==
    /\ gor[g].pc = "collect.count"
    /\ requestCount' = requestCount + 1
    /\ gor' = [gor EXCEPT ![g].pc = "collect.max"]
    /\ ret' = [op |-> "collect.count"]
    /\ UNCHANGED <<clock, lastCollectTime, accResponseTime, maxResponseTime,
                   counterVars, mux, worker, tally>>

\* if maxResponseTime < resTime { maxResponseTime = resTime }, and the
\* deferred statsMux.Unlock()
collectMax(g) ==
    /\ gor[g].pc = "collect.max"
    /\ maxResponseTime' = IF maxResponseTime < gor[g].resTime THEN gor[g].resTime
                                                             ELSE maxResponseTime
    /\ mux' = "free"
    /\ gor' = [gor EXCEPT ![g] = [@ EXCEPT !.pc = "idle", !.calls = @ + 1]]
    /\ tally' = [tally EXCEPT !.recSum = @ + gor[g].resTime, !.recCount = @ + 1]
    /\ ret' = [op |-> "collect.max"]
    /\ UNCHANGED <<clock, lastCollectTime, accResponseTime, requestCount,
                   counterVars, worker>>

\* sendStatsWorker: initStats()
workerInitStats ==
    /\ worker.pc = "initStats"
    /\ lastCollectTime' = clock
    /\ activeSpan' = NoSpans
    /\ worker' = [worker EXCEPT !.pc = "reset.acc", !.caller = "startup"]
    /\ ret' = [op |-> "initStats"]
    /\ UNCHANGED <<clock, responseVars, counterVars, mux, gor, tally>>

\* resetResponseTime(), statement by statement.  sendStatsWorker calls it at
\* its start without statsMux; getStats calls it holding statsMux, and its
\* deferred Unlock and its return follow the last statement.
workerReset ==
    /\ worker.pc \in {"reset.acc", "reset.count", "reset.max", "reset.counters"}
    /\ accResponseTime' = IF worker.pc = "reset.acc" THEN 0 ELSE accResponseTime
    /\ requestCount' = IF worker.pc = "reset.count" THEN 0 ELSE requestCount
    /\ maxResponseTime' = IF worker.pc = "reset.max" THEN 0 ELSE maxResponseTime
    /\ IF worker.pc = "reset.counters"
       THEN /\ sampleNew' = 0
            /\ unsampleNew' = 0
            /\ sampleCont' = 0
            /\ unsampleCont' = 0
            /\ skipNew' = 0
            /\ skipCont' = 0
       ELSE UNCHANGED counterVars
    /\ worker' = [worker EXCEPT
                     !.pc = CASE worker.pc = "reset.acc"      -> "reset.count"
                              [] worker.pc = "reset.count"    -> "reset.max"
                              [] worker.pc = "reset.max"      -> "reset.counters"
                              [] worker.pc = "reset.counters" -> "sleep",
                     !.produced = IF worker.pc = "reset.counters"
                                       /\ worker.caller = "getStats"
                                  THEN @ + 1 ELSE @]
    /\ mux' = IF worker.pc = "reset.counters" /\ worker.caller = "getStats"
              THEN "free" ELSE mux
    /\ ret' = [op |-> worker.pc, caller |-> worker.caller]
    /\ UNCHANGED <<clock, lastCollectTime, activeSpan, gor, tally>>

\* time.Sleep(sleepTime) with a collect interval of one second
workerSleep ==
    /\ worker.pc = "sleep"
    /\ worker.produced < MaxSnapshots
    /\ clock' = clock + TicksPerSecond
    /\ worker' = [worker EXCEPT !.pc = "getStats.lock"]
    /\ ret' = [op |-> "time.Sleep"]
    /\ UNCHANGED <<aggVars, activeSpan, mux, gor, tally>>

\* getStats(): statsMux.Lock()
getStatsLock ==
    /\ worker.pc = "getStats.lock"
    /\ mux = "free"
    /\ mux' = "worker"
    /\ worker' = [worker EXCEPT !.pc = "getStats.read"]
    /\ ret' = [op |-> "getStats.lock"]
    /\ UNCHANGED <<clock, aggVars, activeSpan, gor, tally>>

\* getStats(): the sample is built from the package variables, then
\* lastCollectTime = now; resetResponseTime() follows
getStatsRead ==
    /\ worker.pc = "getStats.read"
    /\ LET now == clock
           dur == now - lastCollectTime
           divisor == Seconds(dur)
       IN  IF divisor = 0
           THEN /\ panicked' = TRUE
                /\ ret' = [op |-> "getStats.read", returned |-> FALSE]
                /\ UNCHANGED <<lastCollectTime, worker, tally>>
           ELSE /\ panicked' = panicked
                /\ ret' = [op |-> "getStats.read", returned |-> TRUE,
                           sum |-> accResponseTime, count |-> requestCount,
                           sample |-> [sampleTime   |-> now,
                                       responseAvg  |-> calcResponseAvg,
                                       responseMax  |-> maxResponseTime,
                                       sampleNew    |-> sampleNew \div divisor,
                                       sampleCont   |-> sampleCont \div divisor,
                                       unSampleNew  |-> unsampleNew \div divisor,
                                       unSampleCont |-> unsampleCont \div divisor,
                                       skipNew      |-> skipNew \div divisor,
                                       skipCont     |-> skipCont \div divisor]]
                /\ tally' = [tally EXCEPT
                               !.snapSum = @ + accResponseTime,
                               !.snapCount = @ + requestCount,
                               !.snapDecided = [k \in DecisionKinds |->
                                                   @[k] + counterOf(k) \div divisor]]
                /\ lastCollectTime' = now
                /\ worker' = [worker EXCEPT !.pc = "reset.acc", !.caller = "getStats"]
    /\ UNCHANGED <<clock, responseVars, counterVars, activeSpan, mux, gor>>

(***************************************************************************)
(* The actions of the goroutines and of the worker.                        *)
(***************************************************************************)
RaceFrame ==
    /\ ~panicked
    /\ UNCHANGED <<histVars, spanOp, streamVars, retryVars, channel, spanObj>>

IncrLoad ==
    /\ RaceFrame
    /\ \E g \in Goroutines, kind \in DecisionKinds : incrLoad(g, kind)
    /\ UNCHANGED <<activeSpan, panicked>>

IncrStore ==
    /\ RaceFrame
    /\ \E g \in Goroutines : incrStore(g)
    /\ UNCHANGED <<activeSpan, panicked>>

CollectLock ==
    /\ RaceFrame
    /\ \E g \in Goroutines, resTime \in RaceTimes : collectLock(g, resTime)
    /\ UNCHANGED <<activeSpan, panicked>>

CollectAcc ==
    /\ RaceFrame
    /\ \E g \in Goroutines : collectAcc(g)
    /\ UNCHANGED <<activeSpan, panicked>>

CollectCount ==
    /\ RaceFrame
    /\ \E g \in Goroutines : collectCount(g)
    /\ UNCHANGED <<activeSpan, panicked>>

CollectMax ==
    /\ RaceFrame
    /\ \E g \in Goroutines : collectMax(g)
    /\ UNCHANGED <<activeSpan, panicked>>

WorkerInitStats == RaceFrame /\ workerInitStats /\ UNCHANGED panicked

WorkerReset == RaceFrame /\ workerReset /\ UNCHANGED panicked

WorkerSleep == RaceFrame /\ workerSleep /\ UNCHANGED panicked

GetStatsLock == RaceFrame /\ getStatsLock /\ UNCHANGED panicked

GetStatsRead == RaceFrame /\ getStatsRead

NextRace ==
    \/ IncrLoad
    \/ IncrStore
    \/ CollectLock
    \/ CollectAcc
    \/ CollectCount
    \/ CollectMax
    \/ WorkerInitStats
    \/ WorkerReset
    \/ WorkerSleep
    \/ GetStatsLock
    \/ GetStatsRead

\* the package variables at their zero values, the worker about to start
InitRace ==
    /\ InitBase
    /\ loop = "none"
    /\ pc = "idle"
    /\ n = 0
    /\ worker = [NoWorker EXCEPT !.pc = "initStats"]
    /\ channel = "none"
    /\ spanObj = NoSpan

\* the goroutines of the application and the stats worker, interleaved
SpecRace == InitRace /\ [][NextRace]_vars

(***************************************************************************)
(* Claims about the aggregator under concurrency, checked under SpecRace.  *)
(***************************************************************************)
\* no call into the aggregator is in progress
Quiescent ==
    /\ worker.pc = "sleep"
    /\ \A g \in Goroutines : gor[g].pc = "idle"

\* C12: no sampling decision is lost or counted twice, whatever the
\* interleaving of the calls with each other and with the snapshots: once
\* every call has returned, for each kind the counts reported by the
\* snapshots plus the counter left equal the number of calls made for that
\* kind (the decisions all made after the start of the worker).
C12_NoDecisionLost ==
    (Quiescent /\ ~tally.early) =>
        \A k \in DecisionKinds :
            tally.snapDecided[k] + counterOf(k) = tally.decided[k]

\* C13: consecutive snapshots partition the recordings: once every call has
\* returned, the sums and the counts the snapshots were built from, plus the
\* sum and the count left, are the sum and the number of the response times
\* recorded.
C13_SnapshotsPartitionRecordings ==
    Quiescent =>
        /\ tally.snapSum + accResponseTime = tally.recSum
        /\ tally.snapCount + requestCount = tally.recCount

(***************************************************************************)
(* The stats worker (src/unnamed/part_001, agent.sendStatsWorker).  Each   *)
(* sample is named by its number: the k-th call of getStats that returns   *)
(* produces sample k.                                                      *)
(***************************************************************************)
\* agent.config.Stat.BatchCount
BatchCount == 2
\* samples the worker collects
MaxSamples == 4

WorkerFrame ==
    /\ ~panicked
    /\ UNCHANGED <<regVars, retryVars, mux, gor, channel, spanObj>>

\* initStats(); resetResponseTime(); time.Sleep(sleepTime);
\* agent.statStream = agent.statGrpc.newStatStreamWithRetry();
\* collected := make([]*inspectorStats, BatchCount); batch := 0
\* The loop of newStatStreamWithRetry returns a live stream or a nil one.
sendStatsWorkerStart ==
    /\ WorkerFrame
    /\ worker.pc = "start"
    /\ clock' = clock + TicksPerSecond
    /\ \E ok \in BOOLEAN : newStatStream(ok)
    /\ worker' = [worker EXCEPT !.pc = "head", !.batch = 0,
                                !.collected = [i \in 1 .. BatchCount |-> 0]]
    /\ UNCHANGED <<aggVars, histVars, tally>>

\* for true { if !agent.enable { break } ...
sendStatsWorkerHead ==
    /\ WorkerFrame
    /\ worker.pc = "head"
    /\ worker' = [worker EXCEPT !.pc = IF enable THEN "collect" ELSE "close"]
    /\ ret' = [op |-> "poll", enable |-> enable]
    /\ UNCHANGED <<clock, aggVars, histVars, streamVars, tally, panicked>>

\* collected[batch] = getStats(); batch++
sendStatsWorkerCollect ==
    /\ WorkerFrame
    /\ worker.pc = "collect"
    /\ getStats
    /\ IF panicked'
       THEN UNCHANGED worker
       ELSE worker' = [worker EXCEPT
                          !.collected[worker.batch + 1] = worker.produced + 1,
                          !.produced = @ + 1,
                          !.batch = @ + 1,
                          !.pc = IF worker.batch + 1 = BatchCount THEN "send"
                                                                  ELSE "sleep"]
    /\ UNCHANGED <<clock, streamVars, tally>>

\* the send that resets the batch index on no outcome
sendStatsWorkerSend_KeepsBatch ==
    /\ WorkerFrame
    /\ worker.pc = "send"
    /\ \E sendErr \in TransportErrs : sendStats(worker.collected, sendErr)
    /\ tally' = [tally EXCEPT !.passed = Append(@, worker.collected),
                              !.errs = Append(@, ret'.err)]
    /\ worker' = [worker EXCEPT !.pc = IF ret'.err # "nil" THEN "closeOnError"
                                                           ELSE "sleep"]
    /\ UNCHANGED <<clock, aggVars, histVars>>

\* if batch == BatchCount { err := agent.statStream.sendStats(collected);
\*     if err != nil { ... } batch = 0 }
sendStatsWorkerSend ==
    /\ WorkerFrame
    /\ worker.pc = "send"
    /\ \E sendErr \in TransportErrs : sendStats(worker.collected, sendErr)
    /\ tally' = [tally EXCEPT !.passed = Append(@, worker.collected),
                              !.errs = Append(@, ret'.err)]
    /\ worker' = [worker EXCEPT !.pc = IF ret'.err # "nil" THEN "closeOnError"
                                                           ELSE "sleep",
                                !.batch = IF ret'.err # "nil" THEN @ ELSE 0]
    /\ UNCHANGED <<clock, aggVars, histVars>>

\* agent.statStream.close()
sendStatsWorkerCloseOnError ==
    /\ WorkerFrame
    /\ worker.pc = "closeOnError"
    /\ \E closeErr \in TransportErrs : statStreamClose(closeErr)
    /\ worker' = [worker EXCEPT !.pc = "reopen"]
    /\ UNCHANGED <<clock, aggVars, histVars, tally>>

\* the re-opening without the reset of the batch index
sendStatsWorkerReopen_KeepsBatch ==
    /\ WorkerFrame
    /\ worker.pc = "reopen"
    /\ \E ok \in BOOLEAN : newStatStream(ok)
    /\ worker' = [worker EXCEPT !.pc = "sleep"]
    /\ UNCHANGED <<clock, aggVars, histVars, tally>>

\* agent.statStream = agent.statGrpc.newStatStreamWithRetry(); batch = 0
sendStatsWorkerReopen ==
    /\ WorkerFrame
    /\ worker.pc = "reopen"
    /\ \E ok \in BOOLEAN : newStatStream(ok)
    /\ worker' = [worker EXCEPT !.pc = "sleep", !.batch = 0]
    /\ UNCHANGED <<clock, aggVars, histVars, tally>>

\* time.Sleep(sleepTime) at the end of the loop body; the run is cut after
\* MaxSamples samples while the agent stays enabled
sendStatsWorkerSleep ==
    /\ WorkerFrame
    /\ worker.pc = "sleep"
    /\ worker.produced < MaxSamples \/ ~enable
    /\ clock' = clock + TicksPerSecond
    /\ worker' = [worker EXCEPT !.pc = "head"]
    /\ ret' = [op |-> "time.Sleep"]
    /\ UNCHANGED <<aggVars, histVars, streamVars, tally, panicked>>

\* the return without the close of the stat stream
sendStatsWorkerClose_LeavesStream ==
    /\ WorkerFrame
    /\ worker.pc = "close"
    /\ ret' = [op |-> "return"]
    /\ worker' = [worker EXCEPT !.pc = "done"]
    /\ UNCHANGED <<clock, aggVars, histVars, streamVars, tally, panicked>>

\* after the loop: agent.statStream.close()
sendStatsWorkerClose ==
    /\ WorkerFrame
    /\ worker.pc = "close"
    /\ \E closeErr \in TransportErrs : statStreamClose(closeErr)
    /\ worker' = [worker EXCEPT !.pc = "done"]
    /\ UNCHANGED <<clock, aggVars, histVars, tally>>

\* the application records response times while the worker runs; the agent
\* is disabled by its shutdown, at any time
NextWorker ==
    \/ sendStatsWorkerStart
    \/ sendStatsWorkerHead
    \/ sendStatsWorkerCollect
    \/ sendStatsWorkerSend
    \/ sendStatsWorkerCloseOnError
    \/ sendStatsWorkerReopen
    \/ sendStatsWorkerSleep
    \/ sendStatsWorkerClose
    \/ CollectResponseTime
    \/ Disable

\* the stats worker about to start
InitWorker ==
    /\ InitBase
    /\ loop = "none"
    /\ pc = "idle"
    /\ n = 0
    /\ worker = [NoWorker EXCEPT !.pc = "start"]
    /\ channel = "none"
    /\ spanObj = NoSpan

\* the stats worker from its start to its return, the agent disabled at any time
SpecWorker == InitWorker /\ [][NextWorker]_vars

\* the worker is a goroutine of its own and each call it makes returns: a
\* step it can take is taken
SpecWorkerLive ==
    /\ SpecWorker
    /\ WF_vars(\/ sendStatsWorkerStart
               \/ sendStatsWorkerHead
               \/ sendStatsWorkerCollect
               \/ sendStatsWorkerSend
               \/ sendStatsWorkerCloseOnError
               \/ sendStatsWorkerReopen
               \/ sendStatsWorkerSleep
               \/ sendStatsWorkerClose)

(***************************************************************************)
(* Claims about the stats worker, checked under SpecWorker.                *)
(***************************************************************************)
\* the number of the batches passed to sendStats that hold the sample
TimesPassed(sample) ==
    Cardinality({i \in DOMAIN tally.passed :
                    \E j \in DOMAIN tally.passed[i] : tally.passed[i][j] = sample})

\* C14: every sample the worker collected is passed to sendStats in exactly
\* one batch: never in two, and in one by the time the worker returns, the
\* samples of a batch left incomplete when the agent is disabled included.
C14_SampleConsumedOnce ==
    /\ \A sample \in 1 .. worker.produced : TimesPassed(sample) <= 1
    /\ worker.pc = "done" =>
           \A sample \in 1 .. worker.produced : TimesPassed(sample) = 1

(***************************************************************************)
(* The constructors of the four channels (src/unnamed/part_000).  Each     *)
(* dials the collector; channel names the constructor that is running.     *)
(***************************************************************************)
Channels == {"agent", "span", "stat", "cmd"}

\* conn, err := connectToCollectorWithRetry(serverAddr, opts)
newAgentGrpc ==
    /\ channel = "agent"
    /\ connectToCollectorWithRetry

newSpanGrpc ==
    /\ channel = "span"
    /\ connectToCollectorWithRetry

newStatGrpc ==
    /\ channel = "stat"
    /\ connectToCollectorWithRetry

\* conn, err := grpc.Dial(serverAddr, opts...)
\* if err != nil { return nil, err }
newCommandGrpc ==
    /\ channel = "cmd"
    /\ pc = "head"
    /\ \E err \in TransportErrs :
          /\ ret' = [op |-> "grpc.Dial", err |-> err]
          /\ loopRet' = IF err = "nil" THEN "conn" ELSE "err"
    /\ pc' = "done"
    /\ UNCHANGED <<n, slept, streamVars>>

NewAgentGrpc == RetryFrame /\ newAgentGrpc

NewSpanGrpc == RetryFrame /\ newSpanGrpc

NewStatGrpc == RetryFrame /\ newStatGrpc

NewCommandGrpc == RetryFrame /\ newCommandGrpc

NextDial ==
    \/ NewAgentGrpc
    \/ NewSpanGrpc
    \/ NewStatGrpc
    \/ NewCommandGrpc

\* one of the constructors has been entered
InitDial ==
    /\ InitBase
    /\ channel \in Channels
    /\ loop = IF channel = "cmd" THEN "none" ELSE "dial"
    /\ pc = "head"
    /\ n = 1
    /\ worker = NoWorker
    /\ spanObj = NoSpan

\* one constructor from its entry to its return
SpecDial == InitDial /\ [][NextDial]_vars

(***************************************************************************)
(* Claims about the constructors, checked under SpecDial.                  *)
(***************************************************************************)
\* C15: in every channel's constructor a first dial that fails is followed by
\* a back-off and a further dial: the error of the first dial is not what the
\* constructor returns.
C15_FirstDialFailureIsRetried ==
    (ret.op = "grpc.Dial" /\ ret.err = "error" /\ n = 1) =>
        (pc = "sleep" /\ loopRet = "none")

(***************************************************************************)
(* The thread dumps of the command channel (src/unnamed/part_000).  A      *)
(* goroutine snapshot is the sequence dump.goroutines, a goroutine has an  *)
(* id and a header, and the headers of one snapshot are distinct.          *)
(* GoroutineDump.Search is not among the sources: it is modelled as the    *)
(* exact lookup of a name among the headers of the snapshot.               *)
(***************************************************************************)
\* goroutines of one snapshot
MaxThreads == 2
\* names of one filter
MaxFilter == 3

ThreadNames == {"a", "b", "c"}
\* "x" names no goroutine of any snapshot
FilterNames == ThreadNames \cup {"x"}
Limits == -1 .. MaxFilter

SeqsUpTo(S, len) == UNION {[1 .. k -> S] : k \in 0 .. len}

GoroutineDumps ==
    {[i \in DOMAIN names |-> [id |-> 10 + i, header |-> names[i]]] :
        names \in {s \in SeqsUpTo(ThreadNames, MaxThreads) :
                      \A i, j \in DOMAIN s : s[i] = s[j] => i = j}}

NilGoroutine == [id |-> 0, header |-> "nil"]

\* dump.Search(tn)
Search(dump, tn) ==
    IF \E i \in DOMAIN dump : dump[i].header = tn
    THEN dump[CHOOSE i \in DOMAIN dump : dump[i].header = tn]
    ELSE NilGoroutine

\* for _, tn := range threadName {
\*     g := dump.Search(tn); if g != nil { selected = append(selected, g) } }
RECURSIVE searchAll(_, _)
searchAll(dump, threadName) ==
    IF threadName = << >>
    THEN << >>
    ELSE LET g == Search(dump, Head(threadName))
         IN  (IF g # NilGoroutine THEN <<g>> ELSE << >>)
                 \o searchAll(dump, Tail(threadName))

makePActiveThreadDump(g) ==
    [shape |-> "PActiveThreadDump", threadName |-> g.header, threadId |-> g.id]

makePActiveThreadDumpList_NoLimit(dump, limit, threadName) ==
    LET selected == searchAll(dump, threadName)
    IN  [i \in 1 .. Len(selected) |-> makePActiveThreadDump(selected[i])]

makePActiveThreadDumpList(dump, limit, threadName) ==
    LET lim == IF limit < 1 THEN Len(dump) ELSE limit
        selected == searchAll(dump, threadName)
    IN  [i \in 1 .. Min(lim, Len(selected)) |-> makePActiveThreadDump(selected[i])]

makePActiveThreadLightDump(g) ==
    [shape |-> "PActiveThreadLightDump", threadName |-> g.header, threadId |-> g.id]

makePActiveThreadLightDumpList(dump, limit) ==
    LET lim == IF limit < 1 THEN Len(dump) ELSE limit
    IN  [i \in 1 .. Min(lim, Len(dump)) |-> makePActiveThreadLightDump(dump[i])]

sendActiveThreadDump(id, limit, threadName, dump) ==
    ret' = [op |-> "sendActiveThreadDump", responseId |-> id, limit |-> limit,
            threadName |-> threadName, dump |-> dump,
            ThreadDump |-> makePActiveThreadDumpList(dump, limit, threadName),
            md |-> grpcMetadataContext(-1)]

sendActiveThreadLightDump(id, limit, dump) ==
    ret' = [op |-> "sendActiveThreadLightDump", responseId |-> id, limit |-> limit,
            dump |-> dump,
            ThreadDump |-> makePActiveThreadLightDumpList(dump, limit),
            md |-> grpcMetadataContext(-1)]

DumpFrame ==
    /\ ~panicked
    /\ UNCHANGED <<clock, aggVars, histVars, regVars, streamVars, retryVars,
                   taskVars, panicked>>

\* a dump is requested with a limit and a name filter, and a snapshot of
\* the goroutines is taken for it: the arguments of sendActiveThreadDump and
\* of sendActiveThreadLightDump
DumpRequested ==
    /\ DumpFrame
    /\ ret.op = "init"
    /\ \E limit \in Limits, threadName \in SeqsUpTo(FilterNames, MaxFilter),
          dump \in GoroutineDumps :
          ret' = [op |-> "dumpRequest", reqId |-> 1, limit |-> limit,
                  threadName |-> threadName, dump |-> dump]

SendActiveThreadDump ==
    /\ DumpFrame
    /\ ret.op = "dumpRequest"
    /\ sendActiveThreadDump(ret.reqId, ret.limit, ret.threadName, ret.dump)

SendActiveThreadLightDump ==
    /\ DumpFrame
    /\ ret.op = "dumpRequest"
    /\ sendActiveThreadLightDump(ret.reqId, ret.limit, ret.dump)

NextDump ==
    \/ DumpRequested
    \/ SendActiveThreadDump
    \/ SendActiveThreadLightDump

\* one dump, requested with any filter, limit and snapshot of the bounds
SpecDump == Init /\ [][NextDump]_vars

(***************************************************************************)
(* Claims about the thread dumps, checked under SpecDump.                  *)
(***************************************************************************)
\* the names of a filter that are the header of a goroutine of the snapshot,
\* in the order of the filter
FoundNames(threadName, dump) ==
    SelectSeq(threadName, LAMBDA tn : \E i \in DOMAIN dump : dump[i].header = tn)

\* the id of the goroutine of the snapshot with the header
IdOf(dump, header) ==
    (CHOOSE g \in {dump[i] : i \in DOMAIN dump} : g.header = header).id

\* the dump is the first count names of the sequence, each with its thread
IsDumpOf(out, names, count, dump) ==
    /\ Len(out) = count
    /\ \A i \in 1 .. count :
          /\ out[i].threadName = names[i]
          /\ out[i].threadId = IdOf(dump, names[i])

HeadersOf(dump) == [i \in DOMAIN dump |-> dump[i].header]

\* C16: with a non-empty name filter the dump holds only threads found by
\* the exact lookup of a filter name, in the order of the filter, names not
\* found skipped; with limit >= 1 it is the first limit threads found.
C16_FilterOrderAndLimit ==
    (ret.op = "sendActiveThreadDump" /\ ret.threadName # << >>) =>
        LET found == FoundNames(ret.threadName, ret.dump)
        IN  /\ Len(ret.ThreadDump) <= Len(found)
            /\ IsDumpOf(ret.ThreadDump, found, Len(ret.ThreadDump), ret.dump)
            /\ ret.limit >= 1 =>
                   Len(ret.ThreadDump) = Min(ret.limit, Len(found))

C16_Witness ==
    /\ ret.op = "sendActiveThreadDump"
    /\ ret.threadName = <<"x", "b", "a">>
    /\ HeadersOf(ret.dump) = <<"a", "b">>
    /\ ret.limit = 1
    /\ Len(ret.ThreadDump) = 1
    /\ ret.ThreadDump[1].threadName = "b"

\* C17: a limit <= 0 is no limit: the dump holds every filter name found in
\* the snapshot, repeated names included, and the light dump holds every
\* thread of the snapshot in the snapshot's order.
C17_NoLimitKeepsEveryEntry ==
    /\ (ret.op = "sendActiveThreadDump" /\ ret.limit <= 0) =>
           LET found == FoundNames(ret.threadName, ret.dump)
           IN  IsDumpOf(ret.ThreadDump, found, Len(found), ret.dump)
    /\ (ret.op = "sendActiveThreadLightDump" /\ ret.limit <= 0) =>
           IsDumpOf(ret.ThreadDump, HeadersOf(ret.dump), Len(ret.dump), ret.dump)

\* C18: an empty name filter does not restrict the dump: with a non-empty
\* snapshot the dump holds the threads of the snapshot up to the limit, all
\* of them when limit <= 0.
C18_EmptyFilterDoesNotRestrict ==
    (ret.op = "sendActiveThreadDump" /\ ret.threadName = << >>
         /\ ret.dump # << >>) =>
        /\ Len(ret.ThreadDump) = (IF ret.limit <= 0 THEN Len(ret.dump)
                                  ELSE Min(ret.limit, Len(ret.dump)))
        /\ \A i \in DOMAIN ret.ThreadDump :
              \E j \in DOMAIN ret.dump :
                  /\ ret.ThreadDump[i].threadName = ret.dump[j].header
                  /\ ret.ThreadDump[i].threadId = ret.dump[j].id

(***************************************************************************)
(* The span channel: a span handed over by the tracer is encoded each time *)
(* sendSpan is called on it (part_000:426-442).                            *)
(***************************************************************************)
\* the most span events of a span
MaxEvents == 1

\* the most times the same span is encoded
MaxEncodes == 2

SpanEvents ==
    [apiId : {0, 5}, operationName : {"", "ev"}, annotations : {<< >>}]

\* the spans the tracer hands over: root spans and span chunks, with and
\* without an operation name, their annotation lists still empty
HandedSpans ==
    {[NoSpan EXCEPT !.asyncId = a, !.operationName = o, !.spanEvents = evs] :
        a \in {0, 1}, o \in {"", "op"},
        evs \in UNION {[1..k -> SpanEvents] : k \in 0..MaxEvents}}

InitSpan ==
    /\ InitBase
    /\ worker = NoWorker
    /\ channel = "none"
    /\ spanObj \in HandedSpans
    /\ loop = "none"
    /\ pc = "idle"
    /\ n = 0

SpanFrame ==
    /\ ~panicked
    /\ UNCHANGED <<clock, aggVars, histVars, regVars, retryVars,
                   mux, gor, worker, tally, channel>>

SpanChannelOpen ==
    /\ SpanFrame
    /\ \E ok \in BOOLEAN : newSpanStream(ok)
    /\ UNCHANGED spanObj

\* sendSpan(span) on the span handed over: the encoders work on the span
\* itself, through the pointer
SpanChannelSend ==
    /\ SpanFrame
    /\ Len(spanObj.annotations) < MaxEncodes
    /\ \A i \in DOMAIN spanObj.spanEvents :
           Len(spanObj.spanEvents[i].annotations) < MaxEncodes
    /\ \E e \in TransportErrs : sendSpan(spanObj, e)
    /\ spanObj' = ret'.span

SpanChannelClose ==
    /\ SpanFrame
    /\ \E e \in TransportErrs : spanStreamClose(e)
    /\ UNCHANGED spanObj

NextSpan ==
    \/ SpanChannelOpen
    \/ SpanChannelSend
    \/ SpanChannelClose

SpecSpan == InitSpan /\ [][NextSpan]_vars

\* C23: a span is immutable once handed to the span channel: sendSpan and
\* the encoders it calls leave the span and its span events, and their
\* annotation lists, unchanged
C23_SendSpanLeavesSpanUnchanged ==
    [][ret'.op = "sendSpan" => spanObj' = spanObj]_vars

\* C24: when sendStats returns an error the worker closes the stat stream,
\* opens a new one and empties the batch; the samples of the failed batch
\* are in no later batch: every batch passed after a failed one holds only
\* samples collected after the failure.
C24_FailedBatchDiscarded ==
    [][/\ (worker.pc = "send" /\ worker'.pc # "send") =>
              IF ret'.err # "nil" THEN worker'.pc = "closeOnError"
                                  ELSE worker'.pc = "sleep"
       /\ (worker.pc = "closeOnError" /\ worker'.pc # "closeOnError") =>
              /\ ret'.op = "statStream.close"
              /\ stream'["stat"] = "nil"
              /\ worker'.pc = "reopen"
       /\ (worker.pc = "reopen" /\ worker'.pc # "reopen") =>
              /\ ret'.op = "newStatStream"
              /\ worker'.batch = 0
              /\ worker'.pc = "sleep"
       /\ \A i \in DOMAIN tally'.passed : \A j \in DOMAIN tally'.passed :
              (i < j /\ tally'.errs[i] # "nil") =>
                  \A a \in 1 .. BatchCount : \A b \in 1 .. BatchCount :
                      tally'.passed[i][a] < tally'.passed[j][b]]_vars

C24_Witness ==
    /\ Len(tally.passed) = 2
    /\ tally.errs[1] = "error"
    /\ tally.passed[1] = <<1, 2>>
    /\ tally.passed[2] = <<3, 4>>
    /\ ret.op = "sendStats"

\* C25: connectToCollectorWithRetry returns a connection and no error
\* exactly when a dial succeeded, and it returns at that dial, making no
\* attempt after it; a failed dial is followed by the back-off sleep; when
\* every attempt has failed it returns the error and no connection.
C25_DialLoopReturn ==
    [][loop = "dial" =>
          /\ (ret'.op = "grpc.Dial" /\ ret'.err = "nil") =>
                 pc' = "done" /\ loopRet' = "conn"
          /\ (ret'.op = "grpc.Dial" /\ ret'.err # "nil") =>
                 pc' = "sleep" /\ loopRet' = loopRet
          /\ (pc # "done" /\ pc' = "done") =>
                 IF ret'.op = "grpc.Dial"
                 THEN loopRet' = "conn"
                 ELSE loopRet' = "err" /\ n = RetryLimit
          /\ pc = "done" => pc' = "done" /\ loopRet' = loopRet]_vars

\* the third dial succeeds after two failed ones
C25_Witness ==
    /\ loop = "dial"
    /\ pc = "done"
    /\ loopRet = "conn"
    /\ n = 3
    /\ slept.attempt = 2
    /\ ret = [op |-> "grpc.Dial", err |-> "nil"]

\* the worker has read agent.enable as false at the head of its loop
ObservedDisabled == worker.pc \in {"close", "done"}

\* C26: once the agent is disabled the stats worker eventually leaves its
\* loop, closes the stat stream, leaving its handle nil, and returns; from
\* the moment it has read the flag as false it collects no sample and
\* passes no batch to sendStats.
C26_DisabledWorkerReturns ==
    /\ (~enable) ~> (worker.pc = "done" /\ stream["stat"] = "nil")
    /\ [][ObservedDisabled =>
              /\ worker'.produced = worker.produced
              /\ tally'.passed = tally.passed
              /\ ObservedDisabled']_vars

\* the worker has returned after the agent was disabled with a batch begun
\* on a live stream
C26_Witness ==
    /\ ~enable
    /\ worker.pc = "done"
    /\ worker.batch = 1
    /\ worker.produced = 3
    /\ ret.op = "statStream.close"
    /\ ret.handle = "live"
    /\ stream["stat"] = "nil"

\* C27: a sample is stored at an index batch with 0 <= batch < BatchCount;
\* sendStats is called exactly when the index has reached BatchCount, with
\* BatchCount samples, all collected since the send before; the index is 0
\* again when the worker goes on after a send, whether it succeeded or not.
C27_BatchIndexDiscipline ==
    [][/\ (worker.pc = "collect" /\ worker'.pc # "collect") =>
              /\ 0 <= worker.batch /\ worker.batch < BatchCount
              /\ worker'.batch = worker.batch + 1
              /\ worker'.collected[worker.batch + 1] = worker'.produced
              /\ worker'.pc = IF worker'.batch = BatchCount THEN "send"
                                                            ELSE "sleep"
       /\ tally'.passed # tally.passed =>
              /\ worker.pc = "send"
              /\ worker.batch = BatchCount
              /\ tally'.passed = Append(tally.passed, worker.collected)
              /\ Len(worker.collected) = BatchCount
              /\ \A i \in 1 .. BatchCount :
                     worker.collected[i] = worker.produced - BatchCount + i
       /\ (worker.pc = "send" /\ worker'.pc # "send") =>
              tally'.passed # tally.passed
       /\ (worker.pc \in {"send", "reopen"} /\ worker'.pc = "sleep") =>
              worker'.batch = 0
       /\ (worker'.pc = "collect") => worker'.batch < BatchCount]_vars

\* the second batch has been sent with success and the index is 0 again
C27_Witness ==
    /\ worker.pc = "sleep"
    /\ worker.batch = 0
    /\ ret.op = "sendStats"
    /\ ret.err = "nil"
    /\ tally.passed = <<<<1, 2>>, <<3, 4>>>>
    /\ tally.errs = <<"nil", "nil">>

CloseOps == {"pingStream.close", "spanStream.close", "statStream.close",
             "cmdStream.close", "activeThreadCountStream.close"}

OpenOps == {"newPingStream", "newSpanStream", "newStatStream",
            "newHandleCommandStream", "newActiveThreadCountStream"}

C29_SpanStreamContextLive ==
    (ret.op \in {"newPingStream", "newSpanStream", "newStatStream"}
         /\ ret.handle = "live") => ~ctxDone[ret.kind]

=============================================================================
